---------------------------- MODULE Spec2Model ----------------------------
(***************************************************************************)
(* A model of sway-scale-switcher (src/src/main.rs).                       *)
(*                                                                         *)
(* Lines of text are TLA+ strings and are processed character by           *)
(* character, as the regular expressions and string methods of the source  *)
(* process them.  An f32 scale is an integer number of 1/ScaleDen units    *)
(* (1.25 is 125); every decimal literal of the input pools has at most two *)
(* fractional digits, so it is represented exactly.                        *)
(***************************************************************************)
EXTENDS Integers, Sequences, FiniteSets, TLC

(***************************************************************************)
(* Bounds of the model.                                                    *)
(***************************************************************************)
MaxSection == 4     \* lines of a configuration file before its output lines
MaxInputs  == 3     \* tokens read from standard input by one prompt
MaxScales  == 3     \* declared scale values given to get_next_scale
MaxLines   == 2     \* lines given to the Scale Inspector and the Rewriter

(***************************************************************************)
(* Characters and strings.                                                 *)
(***************************************************************************)
Min(S) == CHOOSE x \in S : \A y \in S : x <= y
Max(S) == CHOOSE x \in S : \A y \in S : x >= y
Abs(x) == IF x < 0 THEN -x ELSE x

Char(s, i) == SubSeq(s, i, i)
From(s, i) == SubSeq(s, i, Len(s))

\* char::is_whitespace on the characters the inputs contain
WhiteSpace == {" ", "\t"}
DigitChars == <<"0", "1", "2", "3", "4", "5", "6", "7", "8", "9">>
Digits == {DigitChars[i] : i \in 1..10}
NumChars == Digits \cup {"."}

\* lit occurs in s at position i
IsAt(lit, s, i) == i >= 1 /\ i + Len(lit) - 1 <= Len(s) /\ SubSeq(s, i, i + Len(lit) - 1) = lit

\* position of the first occurrence of lit in s, 0 when there is none
Find(lit, s) ==
    LET I == {i \in 1..Len(s) : IsAt(lit, s, i)}
    IN  IF I = {} THEN 0 ELSE Min(I)

\* str::contains
Contains(s, lit) == Find(lit, s) # 0

\* first position >= i of s whose character is outside class, Len(s)+1 when none:
\* where a greedy repetition class+ that starts at i stops
SkipClass(s, i, class) ==
    LET J == {j \in i..Len(s) : Char(s, j) \notin class}
    IN  IF J = {} THEN Len(s) + 1 ELSE Min(J)

\* first position >= i of s that holds c, Len(s)+1 when none
NextChar(s, i, c) ==
    LET J == {j \in i..Len(s) : Char(s, j) = c}
    IN  IF J = {} THEN Len(s) + 1 ELSE Min(J)

\* str::trim
Trim(s) ==
    LET K == {j \in 1..Len(s) : Char(s, j) \notin WhiteSpace}
    IN  IF K = {} THEN "" ELSE SubSeq(s, Min(K), Max(K))

\* str::split(',')
RECURSIVE Split(_)
Split(s) ==
    LET i == Find(",", s)
    IN  IF i = 0 THEN <<s>>
        ELSE <<SubSeq(s, 1, i - 1)>> \o Split(From(s, i + 1))

\* str::eq_ignore_ascii_case(s, "q")
EqIgnoreCaseQ(s) == s \in {"q", "Q"}

(***************************************************************************)
(* Numbers: parsing and formatting.                                        *)
(***************************************************************************)
ScaleDen == 100
EpsilonInv == 1000000

DigitVal(c) == (CHOOSE d \in 1..10 : DigitChars[d] = c) - 1

RECURSIVE DigitsToNat(_)
DigitsToNat(s) ==
    IF s = "" THEN 0
    ELSE DigitsToNat(SubSeq(s, 1, Len(s) - 1)) * 10 + DigitVal(Char(s, Len(s)))

RECURSIVE NatToStr(_)
NatToStr(n) ==
    IF n < 10 THEN DigitChars[n + 1]
    ELSE NatToStr(n \div 10) \o DigitChars[(n % 10) + 1]

AllIn(s, class) == \A j \in 1..Len(s) : Char(s, j) \in class

\* the first two fractional digits of f, as hundredths
FracToUnits(f) ==
    IF f = "" THEN 0
    ELSE IF Len(f) = 1 THEN DigitVal(Char(f, 1)) * 10
    ELSE DigitsToNat(SubSeq(f, 1, 2))

\* <f32 as FromStr>::from_str on decimal literals: an optional sign, digits
\* with at most one '.', at least one digit.  (Exponents, "inf" and "nan" are
\* outside the input alphabet of the model.)
ParseF32(tok) ==
    LET neg  == Len(tok) > 0 /\ Char(tok, 1) = "-"
        body == IF Len(tok) > 0 /\ Char(tok, 1) \in {"+", "-"} THEN From(tok, 2) ELSE tok
        dot  == Find(".", body)
        ip   == IF dot = 0 THEN body ELSE SubSeq(body, 1, dot - 1)
        fp   == IF dot = 0 THEN "" ELSE From(body, dot + 1)
        ok   == AllIn(ip, Digits) /\ AllIn(fp, Digits) /\ Len(ip) + Len(fp) > 0
        mag  == DigitsToNat(ip) * ScaleDen + FracToUnits(fp)
    IN  IF ok THEN [ok |-> TRUE, val |-> IF neg THEN -mag ELSE mag]
        ELSE [ok |-> FALSE, val |-> 0]

\* <usize as FromStr>::from_str: an optional '+', then at least one digit
ParseUsize(tok) ==
    LET body == IF Len(tok) > 0 /\ Char(tok, 1) = "+" THEN From(tok, 2) ELSE tok
    IN  IF Len(body) > 0 /\ AllIn(body, Digits)
        THEN [ok |-> TRUE, val |-> DigitsToNat(body)]
        ELSE [ok |-> FALSE, val |-> 0]

\* <f32 as Display>::fmt: the shortest decimal that reads back as the value;
\* no fractional part is printed for a whole number
FormatF32(v) ==
    LET m  == Abs(v)
        ip == m \div ScaleDen
        fp == m % ScaleDen
        fs == IF fp = 0 THEN ""
              ELSE IF fp % 10 = 0 THEN "." \o DigitChars[(fp \div 10) + 1]
              ELSE "." \o DigitChars[(fp \div 10) + 1] \o DigitChars[(fp % 10) + 1]
    IN  (IF v < 0 THEN "-" ELSE "") \o NatToStr(ip) \o fs

\* (a - b).abs() < 1e-6
Close(a, b) == Abs(a - b) * EpsilonInv < ScaleDen

(***************************************************************************)
(* The regular expressions of the source.                                  *)
(***************************************************************************)
NoMatch == [ok |-> FALSE, cap |-> ""]

\* Regex `<lit>(.+)`, unanchored: the leftmost occurrence of lit that at least
\* one character follows; the capture runs to the end of the line
CaptureAfter(lit, line) ==
    LET I == {i \in 1..Len(line) : IsAt(lit, line, i) /\ i + Len(lit) <= Len(line)}
    IN  IF I = {} THEN NoMatch
        ELSE [ok |-> TRUE, cap |-> From(line, Min(I) + Len(lit))]

target_regex(line) == CaptureAfter("# Target Display = ", line)
scale_regex(line)  == CaptureAfter("# Scale Options = ", line)

\* Regex ^output\s+"([^"]+)"\s+scale\s+([0-9.]+) : every repetition is greedy
\* and is followed by a character outside its class, so the match is unique.
\* display is capture 1, number capture 2, rest_start the end of capture 2.
output_regex(line) ==
    LET p1 == SkipClass(line, 7, WhiteSpace)      \* the opening quote
        q  == NextChar(line, p1 + 1, "\"")        \* the closing quote
        p2 == SkipClass(line, q + 1, WhiteSpace)  \* "scale"
        p3 == SkipClass(line, p2 + 5, WhiteSpace) \* the number
        p4 == SkipClass(line, p3, NumChars)       \* after the number
        ok == /\ IsAt("output", line, 1)
              /\ p1 > 7 /\ IsAt("\"", line, p1)
              /\ q > p1 + 1 /\ q <= Len(line)
              /\ p2 > q + 1 /\ IsAt("scale", line, p2)
              /\ p3 > p2 + 5
              /\ p4 > p3
    IN  IF ok
        THEN [ok |-> TRUE, display |-> SubSeq(line, p1 + 1, q - 1),
              number |-> SubSeq(line, p3, p4 - 1), rest_start |-> p4]
        ELSE [ok |-> FALSE, display |-> "", number |-> "", rest_start |-> 0]

\* Vec::contains
VecContains(v, e) == \E i \in 1..Len(v) : v[i] = e

(***************************************************************************)
(* parse_scale_options                                                     *)
(***************************************************************************)
\* scales_str.split(',').filter_map(|s| s.trim().parse::<f32>().ok()).collect()
RECURSIVE FilterParse(_)
FilterParse(toks) ==
    IF toks = <<>> THEN <<>>
    ELSE LET r == ParseF32(Trim(Head(toks)))
         IN  (IF r.ok THEN <<r.val>> ELSE <<>>) \o FilterParse(Tail(toks))

ParseScaleList(scales_str) == FilterParse(Split(scales_str))

\* the loop over the lines of the section
RECURSIVE ParseLoop(_, _, _)
ParseLoop(section, target_displays, scale_values) ==
    IF section = <<>>
    THEN [target_displays |-> target_displays, scale_values |-> scale_values]
    ELSE LET line == Head(section)
             t == target_regex(line)
             s == scale_regex(line)
         IN  IF t.ok
             THEN ParseLoop(Tail(section), Append(target_displays, Trim(t.cap)), scale_values)
             ELSE IF s.ok
             THEN ParseLoop(Tail(section), target_displays, ParseScaleList(s.cap))
             ELSE ParseLoop(Tail(section), target_displays, scale_values)

\* the two checks after the loop, each ending the process with status 1
ParseExitNoTargetsOnly(opts) ==
    IF opts.target_displays = <<>> THEN "no_targets" ELSE "none"

ParseExit(opts) ==
    IF opts.target_displays = <<>> THEN "no_targets"
    ELSE IF opts.scale_values = <<>> THEN "no_scales"
    ELSE "none"

parse_scale_options(section) ==
    LET opts == ParseLoop(section, <<>>, <<>>)
    IN  [target_displays |-> opts.target_displays,
         scale_values |-> opts.scale_values,
         exit |-> ParseExit(opts)]

(***************************************************************************)
(* get_current_scale                                                       *)
(***************************************************************************)
\* captures.get(2).unwrap().as_str().trim().parse().unwrap_or(1.0)
ReadingOf(number) ==
    LET r == ParseF32(Trim(number)) IN IF r.ok THEN r.val ELSE ScaleDen

\* the test of both scans: the trimmed capture 1 is one of the target displays
IsTargetCapture(display, target_displays) == VecContains(target_displays, Trim(display))

\* the loop over the lines: the readings of the target displays, in scan order
RECURSIVE Readings(_, _)
Readings(ls, target_displays) ==
    IF ls = <<>> THEN <<>>
    ELSE LET m == output_regex(Head(ls))
         IN  (IF m.ok /\ IsTargetCapture(m.display, target_displays)
              THEN <<ReadingOf(m.number)>> ELSE <<>>)
             \o Readings(Tail(ls), target_displays)

PickLast(scales) == IF scales = <<>> THEN ScaleDen ELSE scales[Len(scales)]

PickReading(scales) == IF scales = <<>> THEN ScaleDen ELSE scales[1]

get_current_scale(ls, target_displays) == PickReading(Readings(ls, target_displays))

\* the warning get_current_scale writes to standard error, if any
CurrentScaleWarning(ls, target_displays) ==
    LET scales == Readings(ls, target_displays)
    IN  IF scales = <<>> THEN "no_current_scale"
        ELSE IF \A i \in 1..Len(scales) : Close(scales[i], scales[1]) THEN "none"
        ELSE "multiple_scales"

(***************************************************************************)
(* get_next_scale                                                          *)
(***************************************************************************)
RECURSIVE Insert(_, _)
Insert(sorted, v) ==
    IF sorted = <<>> THEN <<v>>
    ELSE IF v < Head(sorted) THEN <<v>> \o sorted
    ELSE <<Head(sorted)>> \o Insert(Tail(sorted), v)

\* sorted_scales.sort_by(|a, b| a.partial_cmp(b).unwrap()): stable, ascending
RECURSIVE SortAsc(_)
SortAsc(v) == IF v = <<>> THEN <<>> ELSE Insert(SortAsc(SubSeq(v, 1, Len(v) - 1)), v[Len(v)])

\* the index (from 1) of the first sorted scale within epsilon of current_scale, 0 for None
IndexOfCurrent(sorted_scales, current_scale) ==
    LET I == {i \in 1..Len(sorted_scales) : Close(sorted_scales[i], current_scale)}
    IN  IF I = {} THEN 0 ELSE Min(I)

\* panics on an empty list (sorted_scales[0])
get_next_scale(scale_values, current_scale) ==
    LET sorted_scales == SortAsc(scale_values)
        i == IndexOfCurrent(sorted_scales, current_scale)
    IN  IF sorted_scales = <<>> THEN [panic |-> TRUE, val |-> 0, found |-> FALSE]
        ELSE IF i # 0
        THEN [panic |-> FALSE, val |-> sorted_scales[(i % Len(sorted_scales)) + 1], found |-> TRUE]
        ELSE [panic |-> FALSE, val |-> sorted_scales[1], found |-> FALSE]

(***************************************************************************)
(* prompt_user_for_scale: one turn of its loop on the token read           *)
(***************************************************************************)
PromptTurnCaseSensitive(token, declared) ==
    LET trimmed == Trim(token)
        choice == ParseUsize(trimmed)
    IN  IF trimmed = "q" THEN [kind |-> "quit", val |-> 0]
        ELSE IF choice.ok /\ choice.val > 0 /\ choice.val <= Len(declared)
        THEN [kind |-> "selected", val |-> declared[choice.val]]
        ELSE [kind |-> "invalid", val |-> 0]

PromptTurn(token, declared) ==
    LET trimmed == Trim(token)
        choice == ParseUsize(trimmed)
    IN  IF EqIgnoreCaseQ(trimmed) THEN [kind |-> "quit", val |-> 0]
        ELSE IF choice.ok /\ choice.val > 0 /\ choice.val <= Len(declared)
        THEN [kind |-> "selected", val |-> declared[choice.val]]
        ELSE [kind |-> "invalid", val |-> 0]

(***************************************************************************)
(* update_scale_in_outputs                                                 *)
(***************************************************************************)
\* format!("output \"{}\" scale {}{}", display_name, new_scale, rest)
Reconstruct(line, m, scale) ==
    "output \"" \o Trim(m.display) \o "\" scale " \o FormatF32(scale) \o From(line, m.rest_start)

RewriteEveryOutput(line, target_displays, scale) ==
    LET m == output_regex(line)
    IN  IF m.ok THEN Reconstruct(line, m, scale) ELSE line

DropRest(line, target_displays, scale) ==
    LET m == output_regex(line)
    IN  IF m.ok /\ IsTargetCapture(m.display, target_displays)
        THEN "output \"" \o Trim(m.display) \o "\" scale " \o FormatF32(scale)
        ELSE line

\* the closure mapped over the lines
RewriteLine(line, target_displays, scale) ==
    LET m == output_regex(line)
    IN  IF m.ok /\ IsTargetCapture(m.display, target_displays)
        THEN Reconstruct(line, m, scale)
        ELSE line

update_scale_in_outputs(ls, target_displays, scale) ==
    [i \in 1..Len(ls) |-> RewriteLine(ls[i], target_displays, scale)]


(***************************************************************************)
(* Files.                                                                  *)
(***************************************************************************)
\* a line as BufRead::lines yields it: without the carriage return that ends it
StripCR(l) ==
    IF Len(l) > 0 /\ Char(l, Len(l)) = "\r" THEN SubSeq(l, 1, Len(l) - 1) ELSE l

\* BufReader::lines(): the text between line feeds, a last line without one included
RECURSIVE ReadLines(_)
ReadLines(content) ==
    LET i == Find("\n", content)
    IN  IF content = "" THEN <<>>
        ELSE IF i = 0 THEN <<StripCR(content)>>
        ELSE <<StripCR(SubSeq(content, 1, i - 1))>> \o ReadLines(From(content, i + 1))

\* what the loop of writeln! sends to the writer for a sequence of lines
RECURSIVE Serialize(_)
Serialize(ls) == IF ls = <<>> THEN "" ELSE Head(ls) \o "\n" \o Serialize(Tail(ls))

\* the capacity BufWriter::new gives its buffer
BufCapacity == 8192

\* BufWriter::write_all of one piece; w is [disk, buf]: what has reached the
\* file and what is still held in memory
BufWrite(w, piece) ==
    LET flushed == IF Len(w.buf) + Len(piece) > BufCapacity
                   THEN [disk |-> w.disk \o w.buf, buf |-> ""]
                   ELSE w
    IN  IF Len(piece) >= BufCapacity
        THEN [disk |-> flushed.disk \o piece, buf |-> flushed.buf]
        ELSE [disk |-> flushed.disk, buf |-> flushed.buf \o piece]

\* writeln!(writer, "{}", line): the line, then the line feed
WriteLn(w, line) == BufWrite(BufWrite(w, line), "\n")

(***************************************************************************)
(* The state of one run of main.                                           *)
(***************************************************************************)
VARIABLES
    swap,             \* the --swap flag
    pc,               \* the position of main
    config_file,      \* the content of the file the config path named at the start
    config_is,        \* the file the config path names: "orig" or "new"
    temp_is,          \* the file the temp path names: "absent" or "new"
    new_content,      \* the content on disk of the file created at the temp path
    buf,              \* the bytes held in the BufWriter
    written,          \* the number of updated lines passed to writeln!
    lines,
    scale_start,      \* positions from 1; 0 before they are found
    scale_end,
    scale_section,
    target_displays,
    scale_values,
    current_scale,
    new_scale,        \* Option<f32>: [some, val]
    inputs_read,      \* the number of tokens read from standard input so far
    input,            \* the last token read
    updated_lines,
    reload,           \* "none", "spawned" or "failed"
    exit_code,        \* -1 while the process runs
    log               \* what was printed, as tags

vars == <<swap, pc, config_file, config_is, temp_is, new_content, buf, written, lines,
          scale_start, scale_end, scale_section, target_displays, scale_values,
          current_scale, new_scale, inputs_read, input, updated_lines, reload, exit_code,
          log>>

disk == <<config_file, config_is, temp_is, new_content, buf, written>>
parsed == <<lines, scale_start, scale_end, scale_section, target_displays, scale_values>>

None == [some |-> FALSE, val |-> 0]
Some(v) == [some |-> TRUE, val |-> v]

\* the content of the file at the config path
ConfigContent == IF config_is = "orig" THEN config_file ELSE new_content

(***************************************************************************)
(* Inputs.                                                                 *)
(***************************************************************************)
SeqsUpTo(S, n) == UNION {[1..k -> S] : k \in 0..n}

StartLine  == "# Scale Options Start"
EndLine    == "# Scale Options End"
TargetLine == "# Target Display = eDP-1"
ScaleLine  == "# Scale Options = 1.5, 1.0,1.25"
NoScaleLine == "# Scale Options = x, "

SectionPool == {StartLine, EndLine, TargetLine, ScaleLine, NoScaleLine}
\* the output lines that end a configuration file
Tails == { <<>>,
           <<"output \"eDP-1\" scale 1.25">>,
           <<"output \"HDMI-A-1\" scale 2", "output \"eDP-1\" scale 1.5 pos 0 0">> }

ConfigFiles == {h \o t : h \in SeqsUpTo(SectionPool, MaxSection), t \in Tails}

InputPool == {"q", "Q", "abc", "0", "2", "+1", "9"}

ScalePool == {100, 125, 150, 200}

LinePool == {
    "output \"eDP-1\" scale 1.25",
    "output \"eDP-1\" scale 1.0",
    "output  \"eDP-1\"\tscale  1.5 pos 0 0",
    "output \"eDP-1\" scale 2 pos 0 0",
    "output \" eDP-1\" scale 1.5",
    "output \"eDP-1\" scale 1.2.3",
    "output \"HDMI-A-1\" scale 2",
    " output \"eDP-1\" scale 1.5",
    "# output \"eDP-1\" scale 1.5",
    "output \"eDP-1\" scale" }

TargetLists == {<<"eDP-1">>, <<"HDMI-A-1">>, <<"HDMI-A-1", "eDP-1">>, <<"eDP-1", "HDMI-A-1">>}

(***************************************************************************)
(* Initial states.                                                         *)
(***************************************************************************)
Fresh ==
    /\ config_is = "orig" /\ temp_is = "absent" /\ new_content = "" /\ buf = ""
    /\ written = 0
    /\ scale_start = 0 /\ scale_end = 0 /\ scale_section = <<>>
    /\ new_scale = None /\ inputs_read = 0 /\ input = "" /\ updated_lines = <<>>
    /\ reload = "none" /\ exit_code = -1 /\ log = <<>>

\* the process starts: the configuration file exists, nothing has been read
Init ==
    /\ Fresh
    /\ swap \in BOOLEAN
    /\ config_file \in {Serialize(f) : f \in ConfigFiles}
    /\ pc = "start"
    /\ lines = <<>> /\ target_displays = <<>> /\ scale_values = <<>>
    /\ current_scale = 0

(***************************************************************************)
(* main, step by step.                                                     *)
(***************************************************************************)
Exit(code, msg) ==
    /\ pc' = "exited"
    /\ exit_code' = code
    /\ log' = Append(log, msg)

\* a panic unwinds: the BufWriter, if there is one, is dropped and flushes
Panic(msg) == Exit(101, msg)

ReadConfig ==
    /\ pc = "start"
    /\ lines' = ReadLines(config_file)
    /\ pc' = "find_start"
    /\ UNCHANGED <<swap, disk, scale_start, scale_end, scale_section, target_displays,
                   scale_values, current_scale, new_scale, inputs_read, input, updated_lines,
                   reload, exit_code, log>>

\* lines.iter().position(|line| line.contains(marker)), from 1; 0 for None
Position(ls, marker) ==
    LET I == {i \in 1..Len(ls) : Contains(ls[i], marker)}
    IN  IF I = {} THEN 0 ELSE Min(I)

FindStart ==
    /\ pc = "find_start"
    /\ LET p == Position(lines, "Scale Options Start")
       IN  IF p = 0
           THEN Exit(1, "start_marker_not_found") /\ UNCHANGED scale_start
           ELSE scale_start' = p /\ pc' = "find_end" /\ UNCHANGED <<exit_code, log>>
    /\ UNCHANGED <<swap, disk, lines, scale_end, scale_section, target_displays,
                   scale_values, current_scale, new_scale, inputs_read, input, updated_lines, reload>>

FindEnd ==
    /\ pc = "find_end"
    /\ LET p == Position(lines, "Scale Options End")
       IN  IF p = 0
           THEN Exit(1, "end_marker_not_found") /\ UNCHANGED scale_end
           ELSE scale_end' = p /\ pc' = "slice" /\ UNCHANGED <<exit_code, log>>
    /\ UNCHANGED <<swap, disk, lines, scale_start, scale_section, target_displays,
                   scale_values, current_scale, new_scale, inputs_read, input, updated_lines, reload>>

\* &lines[scale_start..=scale_end] panics when the start is beyond end + 1
SliceSection ==
    /\ pc = "slice"
    /\ IF scale_start > scale_end + 1
       THEN Panic("slice_index_panic") /\ UNCHANGED scale_section
       ELSE /\ scale_section' = SubSeq(lines, scale_start, scale_end)
            /\ pc' = "parse"
            /\ UNCHANGED <<exit_code, log>>
    /\ UNCHANGED <<swap, disk, lines, scale_start, scale_end, target_displays,
                   scale_values, current_scale, new_scale, inputs_read, input, updated_lines, reload>>

ParseSection ==
    /\ pc = "parse"
    /\ LET opts == parse_scale_options(scale_section)
       IN  IF opts.exit # "none"
           THEN Exit(1, opts.exit) /\ UNCHANGED <<target_displays, scale_values>>
           ELSE /\ target_displays' = opts.target_displays
                /\ scale_values' = opts.scale_values
                /\ pc' = "current"
                /\ UNCHANGED <<exit_code, log>>
    /\ UNCHANGED <<swap, disk, lines, scale_start, scale_end, scale_section,
                   current_scale, new_scale, inputs_read, input, updated_lines, reload>>

CurrentScale ==
    /\ pc = "current"
    /\ current_scale' = get_current_scale(lines, target_displays)
    /\ log' = LET w == CurrentScaleWarning(lines, target_displays)
              IN  IF w = "none" THEN log ELSE Append(log, w)
    /\ pc' = "select"
    /\ UNCHANGED <<swap, disk, parsed, new_scale, inputs_read, input, updated_lines, reload, exit_code>>

\* cycle mode: Some(get_next_scale(..))
SelectSwap ==
    /\ pc = "select" /\ swap
    /\ LET r == get_next_scale(scale_values, current_scale)
       IN  IF r.panic
           THEN Panic("index_panic") /\ UNCHANGED new_scale
           ELSE /\ new_scale' = Some(r.val)
                /\ log' = Append(log, IF r.found THEN "swapping" ELSE "current_not_found")
                /\ pc' = "update"
                /\ UNCHANGED exit_code
    /\ UNCHANGED <<swap, disk, parsed, current_scale, inputs_read, input, updated_lines, reload>>

\* interactive mode: one turn of the loop of prompt_user_for_scale
PromptRead ==
    /\ pc = "select" /\ ~swap
    /\ inputs_read < MaxInputs
    /\ \E token \in InputPool :
         LET r == PromptTurn(token, scale_values)
         IN  /\ inputs_read' = inputs_read + 1
             /\ input' = token
             /\ new_scale' = IF r.kind = "selected" THEN Some(r.val) ELSE None
             /\ pc' = CASE r.kind = "quit" -> "no_change"
                        [] r.kind = "selected" -> "update"
                        [] OTHER -> "select"
             /\ log' = Append(log, r.kind)
    /\ UNCHANGED <<swap, disk, parsed, current_scale, updated_lines, reload, exit_code>>

\* new_scale is None
NoChange ==
    /\ pc = "no_change"
    /\ Exit(0, "no_changes_made")
    /\ UNCHANGED <<swap, disk, parsed, current_scale, new_scale, inputs_read, input, updated_lines, reload>>

Update ==
    /\ pc = "update"
    /\ updated_lines' = update_scale_in_outputs(lines, target_displays, new_scale.val)
    /\ pc' = "open_temp"
    /\ UNCHANGED <<swap, disk, parsed, current_scale, new_scale, inputs_read, input, reload, exit_code, log>>

\* OpenOptions::new().write(true).create(true).truncate(true).open(temp_path).
\* temp_path is a fixed absolute path, so whether it can be opened does not
\* depend on the config path: both outcomes are possible.
OpenTemp ==
    /\ pc = "open_temp"
    /\ temp_is' = "new" /\ new_content' = "" /\ buf' = ""
    /\ pc' = "write"
    /\ UNCHANGED <<swap, config_file, config_is, written, parsed, current_scale, new_scale,
                   inputs_read, input, updated_lines, reload, exit_code, log>>

OpenTempFails ==
    /\ pc = "open_temp"
    /\ Panic("failed_to_create_temp")
    /\ UNCHANGED <<swap, disk, parsed, current_scale, new_scale, inputs_read, input, updated_lines, reload>>

\* one turn of the loop of writeln!.  A write can fail only when it reaches the
\* file, which no write of a file shorter than BufCapacity does before the drop.
WriteLine ==
    /\ pc = "write"
    /\ written < Len(updated_lines)
    /\ LET w == WriteLn([disk |-> new_content, buf |-> buf], updated_lines[written + 1])
       IN  new_content' = w.disk /\ buf' = w.buf
    /\ written' = written + 1
    /\ UNCHANGED <<swap, pc, config_file, config_is, temp_is, parsed, current_scale, new_scale,
                   inputs_read, input, updated_lines, reload, exit_code, log>>

\* fs::rename(temp_path, &config_path): the config path now names the new file,
\* which the writer still holds open
Rename ==
    /\ pc = "write"
    /\ written = Len(updated_lines)
    /\ config_is' = "new" /\ temp_is' = "absent"
    /\ pc' = "reload"
    /\ UNCHANGED <<swap, config_file, new_content, buf, written, parsed, current_scale,
                   new_scale, inputs_read, input, updated_lines, reload, exit_code, log>>

RenameFails ==
    /\ pc = "write"
    /\ written = Len(updated_lines)
    /\ Panic("failed_to_replace")
    /\ new_content' = new_content \o buf /\ buf' = ""
    /\ UNCHANGED <<swap, config_file, config_is, temp_is, written, parsed, current_scale,
                   new_scale, inputs_read, input, updated_lines, reload>>

\* process::Command::new("swaymsg").arg("reload").spawn()
ReloadSpawned ==
    /\ pc = "reload"
    /\ reload' = "spawned"
    /\ log' = Append(log, "reloaded")
    /\ pc' = "drop"
    /\ UNCHANGED <<swap, disk, parsed, current_scale, new_scale, inputs_read, input, updated_lines, exit_code>>

ReloadFails ==
    /\ pc = "reload"
    /\ reload' = "failed"
    /\ log' = Append(log, "failed_to_reload")
    /\ pc' = "drop"
    /\ UNCHANGED <<swap, disk, parsed, current_scale, new_scale, inputs_read, input, updated_lines, exit_code>>

\* the end of the block drops the writer, which flushes its buffer; Ok(())
DropWriter ==
    /\ pc = "drop"
    /\ new_content' = new_content \o buf /\ buf' = ""
    /\ pc' = "exited" /\ exit_code' = 0
    /\ UNCHANGED <<swap, config_file, config_is, temp_is, written, parsed, current_scale,
                   new_scale, inputs_read, input, updated_lines, reload, log>>

Next ==
    \/ ReadConfig \/ FindStart \/ FindEnd \/ SliceSection \/ ParseSection
    \/ CurrentScale \/ SelectSwap \/ PromptRead \/ NoChange \/ Update
    \/ OpenTemp \/ OpenTempFails \/ WriteLine \/ Rename \/ RenameFails
    \/ ReloadSpawned \/ ReloadFails \/ DropWriter

Spec == Init /\ [][Next]_vars

(***************************************************************************)
(* get_next_scale on its own: the inputs are drawn directly.               *)
(***************************************************************************)
InitNext ==
    /\ Fresh
    /\ swap = TRUE
    /\ config_file = ""
    /\ pc = "select"
    /\ lines = <<>> /\ target_displays = <<"eDP-1">>
    /\ scale_values \in SeqsUpTo(ScalePool, MaxScales) \ {<<>>}
    /\ current_scale \in ScalePool \cup {175}

SpecNext == InitNext /\ [][SelectSwap]_vars

(***************************************************************************)
(* The Scale Inspector and the Rewriter on their own: the lines, the       *)
(* target displays and the declared scales are drawn directly.             *)
(***************************************************************************)
InitRewrite ==
    /\ Fresh
    /\ swap = TRUE
    /\ lines \in SeqsUpTo(LinePool, MaxLines)
    /\ config_file = Serialize(lines)
    /\ pc = "current"
    /\ target_displays \in TargetLists
    /\ scale_values \in {<<v>> : v \in ScalePool} \cup {<<150, 100, 125>>}
    /\ current_scale = 0

NextRewrite == CurrentScale \/ SelectSwap \/ Update

SpecRewrite == InitRewrite /\ [][NextRewrite]_vars

(***************************************************************************)
(* Properties.                                                             *)
(***************************************************************************)
Last(q) == q[Len(q)]
Range(q) == {q[i] : i \in 1..Len(q)}

\* the lines of the configuration file as it was when the process started
FileLines == ReadLines(config_file)

\* C1: at every point of a run the file at the config path holds the complete
\* original content or the complete new content, never less
C1_ConfigAlwaysComplete ==
    ConfigContent \in {config_file, Serialize(updated_lines)}

\* C2: the reload is requested only after the rename, and when it is requested
\* the file at the config path holds every updated line
C2_ReloadSeesNewContent ==
    reload # "none" => (config_is = "new" /\ ConfigContent = Serialize(updated_lines))

\* the section as the spec defines it: from the first line containing the start
\* marker up to the first line after it containing the end marker
SpecSectionEnd(ls) ==
    LET s == Position(ls, "Scale Options Start")
        E == {i \in (s + 1)..Len(ls) : Contains(ls[i], "Scale Options End")}
    IN  IF s = 0 \/ E = {} THEN 0 ELSE Min(E)

SpecSection(ls) == SubSeq(ls, Position(ls, "Scale Options Start"), SpecSectionEnd(ls))

Declared(section) == ParseLoop(section, <<>>, <<>>)

\* the files C3 is about
C3_Invalid ==
    LET ls == FileLines
        s  == Position(ls, "Scale Options Start")
        e  == Position(ls, "Scale Options End")
        EmptyList(section) ==
            LET d == Declared(section)
            IN  d.target_displays = <<>> \/ d.scale_values = <<>>
    IN  \/ s = 0
        \/ e = 0
        \/ EmptyList(SubSeq(ls, s, e))
        \/ EmptyList(SubSeq(ls, s, SpecSectionEnd(ls)))

\* the run is before any selection or has ended with a non-zero status, and
\* there is no temporary file, no rename and no reload
C3_Rejected ==
        /\ pc \in {"start", "find_start", "find_end", "slice", "parse", "exited"}
        /\ pc = "exited" => exit_code # 0
        /\ temp_is = "absent" /\ config_is = "orig" /\ ConfigContent = config_file
        /\ new_content = "" /\ buf = ""
        /\ reload = "none"
        /\ new_scale = None /\ inputs_read = 0

\* C3: a file with a marker missing, no target display or no scale value ends
\* the run with a non-zero status before any selection, with no temporary
\* file, no rename and no reload
C3_InvalidFileRejected == C3_Rejected \/ ~C3_Invalid

C3_Witness ==
    /\ pc = "exited" /\ exit_code = 1 /\ log = <<"no_scales">>
    /\ Position(FileLines, "Scale Options Start") # 0
    /\ Position(FileLines, "Scale Options End") # 0
    /\ Declared(scale_section).target_displays # <<>>
    /\ Declared(scale_section).scale_values = <<>>
    /\ \E i \in 1..Len(scale_section) : scale_regex(scale_section[i]).ok

\* C4: in interactive mode, once "q" or "Q" is read the run changes nothing
\* and ends with status zero after reporting that no changes were made
C4_QuitMakesNoChanges ==
    (~swap /\ inputs_read > 0 /\ EqIgnoreCaseQ(Trim(input))) =>
        /\ pc \in {"no_change", "exited"}
        /\ pc = "no_change" => ENABLED NoChange
        /\ pc = "exited" => (exit_code = 0 /\ Last(log) = "no_changes_made")
        /\ new_scale = None /\ updated_lines = <<>>
        /\ temp_is = "absent" /\ config_is = "orig" /\ ConfigContent = config_file
        /\ new_content = "" /\ buf = ""
        /\ reload = "none"

C4_Witness ==
    /\ pc = "exited" /\ ~swap /\ exit_code = 0
    /\ inputs_read = 3 /\ input = "Q"
    /\ log = <<"no_current_scale", "invalid", "invalid", "quit", "no_changes_made">>

\* the orders in which the values of q can be declared
Orders(q) ==
    {[i \in 1..Len(q) |-> q[f[i]]] :
        f \in {g \in [1..Len(q) -> 1..Len(q)] : \A a, b \in 1..Len(q) : g[a] = g[b] => a = b}}

\* C5: with the current scale equal to the k-th smallest of the N declared
\* values, get_next_scale returns the (k+1 mod N)-th smallest, whatever the
\* declaration order
C5_NextIsSuccessorOfKth ==
    (pc = "update" /\ swap) =>
        LET sorted == SortAsc(scale_values)
            N == Len(sorted)
        IN  /\ \A k \in 1..N : sorted[k] = current_scale => new_scale.val = sorted[(k % N) + 1]
            /\ \A o \in Orders(scale_values) :
                   get_next_scale(o, current_scale).val = new_scale.val

\* C6: cycle mode selects a strictly greater declared value when there is one,
\* and the smallest declared value otherwise
C6_CycleAdvances ==
    (pc = "update" /\ swap /\ current_scale \in Range(scale_values)) =>
        IF \E v \in Range(scale_values) : v > current_scale
        THEN new_scale.val > current_scale
        ELSE new_scale.val = Min(Range(scale_values))

\* C7: for a file with a start marker and an end marker after it, the section
\* handed to parse_scale_options runs from the start marker to the first end
\* marker after it
C7_SectionIsStartToNextEnd ==
    (pc \notin {"start", "find_start", "find_end", "slice"} /\ SpecSectionEnd(FileLines) # 0) =>
        /\ ~(exit_code = 101 /\ Last(log) = "slice_index_panic")
        /\ scale_section = SpecSection(FileLines)

\* the lines whose quoted name, as written, is one of the target displays
LiteralTargetLine(line) ==
    output_regex(line).ok /\ VecContains(target_displays, output_regex(line).display)

\* the lines whose quoted name, with the white space around it removed, is one
\* of the target displays
TrimmedTargetLine(line) ==
    output_regex(line).ok /\ VecContains(target_displays, Trim(output_regex(line).display))

\* C8 as stated: the rewritten sequence has the same length and every line
\* that is not an output line of a display in target_displays is unchanged
C8_OnlyLiteralTargetLinesChange ==
    pc = "open_temp" =>
        /\ Len(updated_lines) = Len(lines)
        /\ \A i \in 1..Len(lines) :
               ~LiteralTargetLine(lines[i]) => updated_lines[i] = lines[i]

\* C8 amended: the rewritten sequence has the same length and every line that
\* is not an output line whose quoted name, trimmed of surrounding white
\* space, is in target_displays is unchanged
C8_OnlyTrimmedTargetLinesChange ==
    pc = "open_temp" =>
        /\ Len(updated_lines) = Len(lines)
        /\ \A i \in 1..Len(lines) :
               ~TrimmedTargetLine(lines[i]) => updated_lines[i] = lines[i]

C8_Witness ==
    /\ pc = "open_temp"
    /\ \E i, j \in 1..Len(lines) :
          /\ TrimmedTargetLine(lines[i]) /\ updated_lines[i] # lines[i]
          /\ output_regex(lines[j]).ok /\ ~TrimmedTargetLine(lines[j])
          /\ updated_lines[j] = lines[j]

\* the case of C9: every reading of a target display is the current scale, and
\* the current scale is the new scale
SameScaleRewritten ==
    /\ pc = "open_temp"
    /\ new_scale.val = current_scale
    /\ \A r \in Range(Readings(lines, target_displays)) : r = current_scale

\* C9 as stated: rewriting with the current scale leaves every matching line
\* byte-identical, however the line is written
C9_RoundTripIdentical ==
    SameScaleRewritten =>
        \A i \in 1..Len(lines) : TrimmedTargetLine(lines[i]) => updated_lines[i] = lines[i]

\* a matching line written the way the Rewriter writes: one space between the
\* tokens, no white space around the quoted name, the number without trailing
\* zeros or a trailing dot
Canonical(line) ==
    LET m == output_regex(line)
    IN  /\ m.ok
        /\ m.display = Trim(m.display)
        /\ IsAt("output \"" \o m.display \o "\" scale ", line, 1)
        /\ m.rest_start - Len(m.number) = Len("output \"" \o m.display \o "\" scale ") + 1
        /\ ParseF32(m.number).ok
        /\ m.number = FormatF32(ParseF32(m.number).val)

\* C9 amended: rewriting with the current scale leaves byte-identical every
\* matching line that is written in the Rewriter's own form
C9_RoundTripCanonical ==
    SameScaleRewritten =>
        \A i \in 1..Len(lines) :
            (TrimmedTargetLine(lines[i]) /\ Canonical(lines[i])) => updated_lines[i] = lines[i]

C9_Witness ==
    /\ SameScaleRewritten
    /\ \E i \in 1..Len(lines) :
          /\ TrimmedTargetLine(lines[i]) /\ Canonical(lines[i])
          /\ From(lines[i], output_regex(lines[i]).rest_start) # ""
          /\ updated_lines[i] = lines[i]

=============================================================================
